---- MODULE Spec2Model ----
(***************************************************************************)
(* A model of the entrypoint crate (entrypoint/src/lib.rs): the dotenv     *)
(* loader DotEnvParser::process_dotenv_files, the logging initializer      *)
(* Logger::log_init and the orchestration Entrypoint::entrypoint.          *)
(*                                                                         *)
(* The process environment, the files on disk and the global tracing      *)
(* dispatcher are process-wide state.  The dotenvy and tracing calls the   *)
(* crate makes are modelled at their call sites by what they do to that    *)
(* state.                                                                  *)
(***************************************************************************)
EXTENDS Integers, Sequences, FiniteSets, TLC

VARIABLES
    env,        \* the process environment: key -> value or Unset
    fs,         \* the files on disk: file name -> Missing or its lines
    self,       \* the configuration handle the running method was called on
    pc,         \* position of the running call
    idx,        \* position of the fold over additional_dotenv_files()
    accum,      \* accumulator of the fold over additional_dotenv_files()
    result,     \* value returned by the finished call, NoResult before
    attempts,   \* load attempts of the running call, in order
    log,        \* tracing events emitted by the running call, in order
    env0,       \* the environment when the running call started
    argv,       \* the command line of the process, read by Self::parse()
    phase,      \* position of the running entrypoint call, "direct" outside one
    scoped,     \* whether the temporary subscriber of entrypoint is the default
    global,     \* the global default subscriber: installed or not, its layers
    layersArg,  \* the layers argument of the last log_init call
    nInit,      \* number of log_init calls made so far
    filters,    \* the current filter of each layer of the global subscriber
    handles,    \* the layers whose reload handle the application holds
    modifies,   \* the modify calls made on reload handles, in order
    maxLevel,   \* the level LevelFilter::current() returns
    userInits,  \* log_init calls made by user functions so far
    threads,    \* the threads of the application that call modify: their position
    locks,      \* the lock of each layer's reload cell: its holder, 0 when free
    ret,        \* value returned by the finished entrypoint call
    calls,      \* invocations of the user function by the running entrypoint call
    trace,      \* finished steps of the running entrypoint call, in order
    runs,       \* number of entrypoint calls started so far
    old         \* outcome of the earlier revision's loader on the inputs of the call

loadVars == <<env, fs, self, pc, idx, accum, result, attempts, log, env0>>
threadVars == <<threads, locks>>
logVars == <<global, layersArg, nInit, filters, handles, modifies, maxLevel, userInits, threadVars>>
entryVars == <<argv, phase, scoped, ret, calls, trace, runs, old>>
vars == <<loadVars, logVars, entryVars>>

----------------------------------------------------------------------------
(* Bounds of the model. *)

\* total number of lines in the files on disk
MaxLines == 2
\* length of the list returned by additional_dotenv_files()
MaxFiles == 2
\* log_init calls made directly by the application
MaxInits == 3
\* layers passed to one log_init call
MaxLayers == 2
\* entrypoint calls made in one process
MaxRuns == 2
\* modify calls made on reload handles
MaxModifies == 2
\* log_init calls made by user functions
MaxUserInits == 1
\* threads that call modify at the same time
MaxThreads == 2

----------------------------------------------------------------------------
(* The universe the inputs are drawn from. *)

Keys == {"KEY", "LOG_LEVEL"}
\* values the files give, and the value a variable may have before any load
Vals == {"1", "2"}
PreVals == {"0"}
Unset == "unset"

DefaultFile == ".env"
SuppliedFiles == {"extra.env", "more.env"}
Files == {DefaultFile} \cup SuppliedFiles

\* a file on disk: absent, or present with its lines
Missing == [exists |-> FALSE, lines |-> <<>>]
Present(lines) == [exists |-> TRUE, lines |-> lines]
BadLine == [bad |-> TRUE]
Lines == [key : Keys, val : Vals] \cup {BadLine}

\* Option<Vec<PathBuf>>
None == [some |-> FALSE, list |-> <<>>]
Some(list) == [some |-> TRUE, list |-> list]
NoFile == "-"
NoResult == [pending |-> TRUE]

RECURSIVE SeqsUpTo(_, _)
SeqsUpTo(S, n) ==
    IF n = 0 THEN {<<>>}
    ELSE LET shorter == SeqsUpTo(S, n - 1)
         IN  shorter \cup {Append(s, x) : s \in {t \in shorter : Len(t) = n - 1}, x \in S}

RECURSIVE SumLen(_, _)
SumLen(f, names) ==
    IF names = {} THEN 0
    ELSE LET n == CHOOSE x \in names : TRUE
         IN  Len(f[n].lines) + SumLen(f, names \ {n})

FileSystems ==
    {f \in [Files -> {Missing} \cup {Present(l) : l \in SeqsUpTo(Lines, MaxLines)}] :
        SumLen(f, Files) <= MaxLines}

Environments == [Keys -> PreVals \cup {Unset}]

\* no command line is read outside entrypoint
NoArgv == [files |-> None, bypass |-> FALSE]

\* LevelFilter, and the marker of a default_log_level() that reads LOG_LEVEL
LevelFilters == {"OFF", "ERROR", "WARN", "INFO", "DEBUG", "TRACE"}
FromEnv == "env"

\* a configuration handle: what its DotEnvParserConfig and LoggerConfig
\* methods return
Handle(files, can_override, bypass, level) ==
    [files |-> files, can_override |-> can_override, bypass |-> bypass, level |-> level]

Handles ==
    {Handle(f, o, FALSE, "INFO") :
        f \in {None} \cup {Some(l) : l \in SeqsUpTo(SuppliedFiles, MaxFiles)},
        o \in BOOLEAN}

----------------------------------------------------------------------------
(* Results and errors. *)

Ok == [ok |-> TRUE]
Err(e) == [ok |-> FALSE, err |-> e]

\* dotenvy's errors carry no file path: an I/O error or a line that fails to parse
IoNotFound == [kind |-> "Io", text |-> "path not found"]
LineParse(i) == [kind |-> "LineParse", index |-> i]

\* Result::and: the receiver's error if it has one, else the argument
And(res, other) == IF res.ok THEN other ELSE res

----------------------------------------------------------------------------
(* dotenvy, as called by process_dotenv_files. *)

\* one line of a file: with override the variable is set, without override
\* a variable that is already set is kept
SetVarReplacing(e, line, override) ==
    IF override THEN [k \in DOMAIN e |-> IF k = line.key THEN line.val ELSE Unset]
    ELSE IF e[line.key] = Unset THEN [e EXCEPT ![line.key] = line.val]
    ELSE e
SetVarAlways(e, line, override) == [e EXCEPT ![line.key] = line.val]
SetVar(e, line, override) ==
    IF override \/ e[line.key] = Unset
    THEN [e EXCEPT ![line.key] = line.val]
    ELSE e

\* the lines of a file are applied in order; a line that does not parse
\* ends the load with an error and leaves the lines before it applied
RECURSIVE LoadLines(_, _, _, _)
LoadLines(e, lines, i, override) ==
    IF i > Len(lines) THEN [env |-> e, res |-> Ok]
    ELSE IF lines[i] = BadLine THEN [env |-> e, res |-> Err(LineParse(i))]
    ELSE LoadLines(SetVar(e, lines[i], override), lines, i + 1, override)

LoadFile(e, f, file, override) ==
    IF ~f[file].exists
    THEN [env |-> e, res |-> Err(IoNotFound)]
    ELSE LoadLines(e, f[file].lines, 1, override)

from_filename(e, f, file) == LoadFile(e, f, file, FALSE)
from_filename_override(e, f, file) == LoadFile(e, f, file, TRUE)
dotenv(e, f) == LoadFile(e, f, DefaultFile, FALSE)
dotenv_override(e, f) == LoadFile(e, f, DefaultFile, TRUE)

----------------------------------------------------------------------------
(* tracing events *)

Event(level, text, file) == [level |-> level, text |-> text, file |-> file]

LoadMsg(override) ==
    IF override THEN "dotenv::from_filename_override" ELSE "dotenv::from_filename"

----------------------------------------------------------------------------
(* DotEnvParser::process_dotenv_files *)

additional_dotenv_files(h) == h.files
dotenv_can_override(h) == h.can_override

\* the load of .env, by the override setting of the handle
LoadDefaultAlwaysOverride(e, f, h) == dotenv_override(e, f)
LoadDefault(e, f, h) ==
    IF dotenv_can_override(h) THEN dotenv_override(e, f) ELSE dotenv(e, f)

\* the load of one supplied file, by the override setting of the handle
LoadSuppliedNeverOverride(e, f, file, h) == from_filename(e, f, file)
LoadSuppliedAlwaysOverride(e, f, file, h) == from_filename_override(e, f, file)
LoadSuppliedRollback(e, f, file, h) ==
    LET r == IF dotenv_can_override(h)
             THEN from_filename_override(e, f, file)
             ELSE from_filename(e, f, file)
    IN  IF r.res.ok THEN r ELSE [env |-> e, res |-> r.res]
LoadSupplied(e, f, file, h) ==
    IF dotenv_can_override(h)
    THEN from_filename_override(e, f, file)
    ELSE from_filename(e, f, file)

\* the file the fold visits at its i-th step
NextFileReversed(h, i) ==
    additional_dotenv_files(h).list[Len(additional_dotenv_files(h).list) + 1 - i]
NextFile(h, i) == additional_dotenv_files(h).list[i]

\* the closure `process`: one event per supplied file, the result unchanged
processUnnamed(res, msg, file) ==
    IF res.ok THEN Event("INFO", msg, NoFile) ELSE Event("ERROR", msg, NoFile)
process(res, msg, file) ==
    IF res.ok THEN Event("INFO", msg, file) ELSE Event("ERROR", msg, file)

\* one step of the fold: process(..).and(accum)
FoldOr(res, acc) == IF res.ok THEN res ELSE acc
FoldFirst(res, acc) == And(acc, res)
Fold(res, acc) == And(res, acc)

\* `?` on the fold's result, then Ok(self)
PropagateNothing(acc, h) == [ok |-> TRUE, value |-> h]
Propagate(acc, h) == IF acc.ok THEN [ok |-> TRUE, value |-> h] ELSE acc

\* .map_err(|_| warn!(..)).unwrap_or(()): the result of the .env load is
\* dropped, and the fold starts from Ok(())
SuppressedNever(res) == res
Suppressed(res) == Ok

\* the .env file: loaded when present, every failure suppressed with a warning
ProcessDefault ==
    /\ pc = "dotenv"
    /\ LET r == LoadDefault(env, fs, self)
       IN  /\ env' = r.env
           /\ attempts' = Append(attempts, [file |-> DefaultFile, res |-> r.res])
           /\ log' = Append(log,
                  IF r.res.ok
                  THEN Event("INFO", LoadMsg(dotenv_can_override(self)), DefaultFile)
                  ELSE Event("WARN", "no .env file found", NoFile))
           /\ accum' = Suppressed(r.res)
    /\ idx' = 1
    /\ pc' = IF additional_dotenv_files(self).some THEN "fold" ELSE "return"
    /\ UNCHANGED <<fs, self, result, env0>>
    /\ UNCHANGED <<logVars, entryVars>>

\* the fold visits the next supplied file, whatever the files before it did
FoldStep ==
    /\ pc = "fold"
    /\ idx <= Len(additional_dotenv_files(self).list)
    /\ LET file == NextFile(self, idx)
           r == LoadSupplied(env, fs, file, self)
       IN  /\ env' = r.env
           /\ attempts' = Append(attempts, [file |-> file, res |-> r.res])
           /\ log' = Append(log, process(r.res, LoadMsg(dotenv_can_override(self)), file))
           /\ accum' = Fold(r.res, accum)
    /\ idx' = idx + 1
    /\ UNCHANGED <<fs, self, pc, result, env0>>
    /\ UNCHANGED <<logVars, entryVars>>

FoldDone ==
    /\ pc = "fold"
    /\ idx > Len(additional_dotenv_files(self).list)
    /\ pc' = "return"
    /\ UNCHANGED <<env, fs, self, idx, accum, result, attempts, log, env0>>
    /\ UNCHANGED <<logVars, entryVars>>

Return ==
    /\ pc = "return"
    /\ result' = Propagate(accum, self)
    /\ pc' = "done"
    /\ UNCHANGED <<env, fs, self, idx, accum, attempts, log, env0>>
    /\ UNCHANGED <<logVars, entryVars>>

process_dotenv_files == ProcessDefault \/ FoldStep \/ FoldDone \/ Return

----------------------------------------------------------------------------
(* ProcessEnvironmentVariableFiles::process_env_files, the earlier revision *)

\* env_files(): the supplied files of the handle
env_files(h) == h.files

\* the earlier revision loads every file without override
OldLoadOverride(e, f, file) == from_filename_override(e, f, file)
OldLoad(e, f, file) == from_filename(e, f, file)

\* `for file in files { dotenvy::from_filename(file)?; }`: the first file
\* that fails ends the loop and the call, the files after it are not loaded
RECURSIVE OldSupplied(_, _, _, _)
OldSupplied(e, f, files, i) ==
    IF i > Len(files) THEN [env |-> e, res |-> Ok]
    ELSE LET r == OldLoad(e, f, files[i])
         IN  IF r.res.ok THEN OldSupplied(r.env, f, files, i + 1) ELSE r

\* one iteration of the loop: .env, whose failure is only remembered, then
\* the supplied files when env_files() returns some
OldPass(e, f, h) ==
    LET d == dotenv(e, f)
    IN  IF env_files(h).some
        THEN LET s == OldSupplied(d.env, f, env_files(h).list, 1)
             IN  [env |-> s.env, res |-> s.res, found |-> d.res.ok, supplied |-> TRUE]
        ELSE [env |-> d.env, res |-> Ok, found |-> d.res.ok, supplied |-> FALSE]

\* `for _ in 0..=1`: a second iteration unless the first one found no .env
\* and had no supplied files; `?` returns the error of a supplied file
OldLoops(e, f, h) ==
    LET p1 == OldPass(e, f, h)
    IN  IF ~p1.res.ok THEN [env |-> p1.env, res |-> p1.res, passes |-> 1]
        ELSE IF ~p1.found /\ ~p1.supplied
        THEN [env |-> p1.env, res |-> [ok |-> TRUE, value |-> h], passes |-> 1]
        ELSE LET p2 == OldPass(p1.env, f, h)
             IN  [env |-> p2.env,
                  res |-> IF p2.res.ok THEN [ok |-> TRUE, value |-> h] ELSE p2.res,
                  passes |-> 2]

\* the earlier revision run by a process that starts from the environment
\* and the files the call started from
process_env_files ==
    /\ pc = "done"
    /\ old = NoResult
    /\ old' = OldLoops(env0, fs, self)
    /\ UNCHANGED <<loadVars, logVars>>
    /\ UNCHANGED <<argv, phase, scoped, ret, calls, trace, runs>>

----------------------------------------------------------------------------
(* Logger::log_init *)

\* the global default subscriber of the process
NoSubscriber == [installed |-> FALSE, layers |-> <<>>]
Installed(layers) == [installed |-> TRUE, layers |-> layers]

bypass_log_init_never(h) == FALSE
bypass_log_init(h) == h.bypass

\* LoggerConfig::default_log_level: a constant of the handle's type, or read
\* from LOG_LEVEL with "info" as the default
default_log_level(h, e) ==
    IF h.level # FromEnv THEN h.level
    ELSE IF e["LOG_LEVEL"] = Unset THEN "INFO" ELSE e["LOG_LEVEL"]

\* LoggerConfig::default_log_layer: one layer, filtered at the default level
default_log_layer_info(h, e) == "INFO"
default_log_layer(h, e) == default_log_level(h, e)

BypassError == [kind |-> "anyhow", text |-> "bypass_log_init() is false, but layers were passed into log_init()"]
InitError == [kind |-> "anyhow", text |-> "tracing::subscriber::set_global_default failed"]

\* the match on (bypass_log_init(), layers): the layers to register, or bail
SelectLayersAny(h, layers, e) ==
    IF ~bypass_log_init(h) /\ ~layers.some
    THEN [bail |-> FALSE, layers |-> Some(<<default_log_layer(h, e)>>)]
    ELSE [bail |-> FALSE, layers |-> layers]
SelectLayersStrict(h, layers, e) ==
    IF bypass_log_init(h) = layers.some
    THEN [bail |-> FALSE,
          layers |-> IF layers.some THEN layers ELSE Some(<<default_log_layer(h, e)>>)]
    ELSE [bail |-> TRUE, layers |-> None]
SelectLayers(h, layers, e) ==
    IF ~bypass_log_init(h) /\ layers.some THEN [bail |-> TRUE, layers |-> None]
    ELSE IF ~bypass_log_init(h) THEN [bail |-> FALSE, layers |-> Some(<<default_log_layer(h, e)>>)]
    ELSE [bail |-> FALSE, layers |-> layers]

\* registry().with(layers).try_init(): the global default is set once
try_init_replacing(g, layers) == [ok |-> TRUE, global |-> Installed(layers)]
try_init(g, layers) ==
    IF g.installed THEN [ok |-> FALSE, global |-> g]
    ELSE [ok |-> TRUE, global |-> Installed(layers)]

\* .is_err() on the result of try_init
InitFailedIgnored(t) == FALSE
InitFailed(t) == ~t.ok

\* log_init(self, layers) with global default g and environment e
log_init(h, layers, g, e) ==
    LET chosen == SelectLayers(h, layers, e)
    IN  IF chosen.bail THEN [global |-> g, res |-> Err(BypassError)]
        ELSE IF chosen.layers.some
        THEN LET t == try_init(g, chosen.layers.list)
             IN  IF InitFailed(t)
                 THEN [global |-> t.global, res |-> Err(InitError)]
                 ELSE [global |-> t.global, res |-> [ok |-> TRUE, value |-> h]]
        ELSE [global |-> g, res |-> [ok |-> TRUE, value |-> h]]

\* the levels of events, and the verbosity of a LevelFilter
Levels == LevelFilters \ {"OFF"}
LevelNum(l) ==
    CASE l = "OFF" -> 0
      [] l = "ERROR" -> 1
      [] l = "WARN" -> 2
      [] l = "INFO" -> 3
      [] l = "DEBUG" -> 4
      [] l = "TRACE" -> 5

\* a filter admits the events that are at most as verbose as it is
AdmitsAll(filter, level) == level # "OFF"
Admits(filter, level) == level # "OFF" /\ LevelNum(level) <= LevelNum(filter)

MaxOf(S) == CHOOSE l \in S : \A m \in S : LevelNum(m) <= LevelNum(l)

\* the level hint of a list of filtered layers: OFF when it is empty
Hint(layers) == MaxOf({"OFF"} \cup {layers[i] : i \in 1..Len(layers)})

\* tracing_subscriber::fmt().finish(): the temporary subscriber of entrypoint
TempLevel == "INFO"

\* the hints of the live dispatchers: the temporary one while it is the
\* default, the global one once it is installed
LiveHints(sc, g, fl) ==
    (IF sc THEN {TempLevel} ELSE {}) \cup (IF g.installed THEN {Hint(fl)} ELSE {})

\* LevelFilter::current() after a dispatcher with hint new was created or a
\* filter was reloaded: the most verbose hint of the live dispatchers
Rebuild(new, sc, g, fl) == MaxOf({new} \cup LiveHints(sc, g, fl))

\* whether the dispatcher in effect enables an event: the temporary subscriber
\* while it is the default, else the layers of the global one, any of them
EnabledByEvery(sc, g, fl, level) ==
    IF sc THEN Admits(TempLevel, level)
    ELSE g.installed /\ \A i \in 1..Len(fl) : Admits(fl[i], level)
EnabledBy(sc, g, fl, level) ==
    IF sc THEN Admits(TempLevel, level)
    ELSE g.installed /\ \E i \in 1..Len(fl) : Admits(fl[i], level)

\* enabled!(level): the level passes LevelFilter::current() and the dispatcher
EnabledAt(max, sc, g, fl, level) == Admits(max, level) /\ EnabledBy(sc, g, fl, level)

\* LevelFilter::into_level: OFF has no Level
into_level(f) == IF f = "OFF" THEN [some |-> FALSE] ELSE [some |-> TRUE, level |-> f]

\* .expect(..) on a missing value aborts the thread
Panic == [ok |-> FALSE, panic |-> TRUE]

\* the arguments of info!(..) are evaluated when the event is enabled
EvaluatedAlways(max, sc, g, fl) == TRUE
Evaluated(max, sc, g, fl) == EnabledAt(max, sc, g, fl, "INFO")

\* info!("log level: {}", LevelFilter::current().into_level().expect(..))
LogLevelLine(res, max, sc, g, fl) ==
    IF Evaluated(max, sc, g, fl) /\ ~into_level(max).some THEN Panic ELSE res

\* the whole of log_init, with the statics of tracing it reads and writes:
\* the global default, the filters of its layers, the reload handles kept
\* and LevelFilter::current()
LogInitOutcome(h, layers, g, e, sc, fl, hd, max) ==
    LET chosen == SelectLayers(h, layers, e)
        r == log_init(h, layers, g, e)
        attempted == ~chosen.bail /\ chosen.layers.some
        installs == attempted /\ r.res.ok
        fl2 == IF installs THEN chosen.layers.list ELSE fl
        max2 == IF attempted THEN Rebuild(Hint(chosen.layers.list), sc, g, fl) ELSE max
    IN  [global |-> r.global,
         filters |-> fl2,
         handles |-> IF ~installs THEN hd
                     ELSE IF layers.some THEN 1..Len(layers.list) ELSE {},
         maxLevel |-> max2,
         res |-> IF r.res.ok THEN LogLevelLine(r.res, max2, sc, r.global, fl2) ELSE r.res]

\* the handles and layers of direct log_init calls
LogHandles ==
    {Handle(None, FALSE, b, l) : b \in BOOLEAN, l \in {"OFF", "INFO", "TRACE", FromEnv}}
LayerArgs == {None} \cup {Some(l) : l \in SeqsUpTo({"INFO", "TRACE"}, MaxLayers)}

\* the application calls log_init on a handle
LogInitCall ==
    /\ phase = "direct"
    /\ nInit < MaxInits
    /\ \E h \in LogHandles, layers \in LayerArgs :
          LET r == LogInitOutcome(h, layers, global, env, scoped, filters, handles, maxLevel)
          IN  /\ self' = h
              /\ layersArg' = layers
              /\ global' = r.global
              /\ filters' = r.filters
              /\ handles' = r.handles
              /\ maxLevel' = r.maxLevel
              /\ result' = r.res
    /\ nInit' = nInit + 1
    /\ UNCHANGED <<env, fs, pc, idx, accum, attempts, log, env0, modifies, userInits, threadVars, entryVars>>

\* the levels the application reloads a filter to
ReloadLevels == {"ERROR", "INFO", "TRACE"}

\* Handle::modify(|layer| *layer.filter_mut() = level) on the handle of layer i
WrittenAll(fl, i, level) == [j \in DOMAIN fl |-> level]
Written(fl, i, level) == [fl EXCEPT ![i] = level]

\* the application installs the layers it built, each with a reload handle
InstallLayers ==
    /\ phase = "direct"
    /\ bypass_log_init(self)
    /\ ~global.installed
    /\ \E layers \in LayerArgs \ {None} :
          LET r == LogInitOutcome(self, layers, global, env, scoped, filters, handles, maxLevel)
          IN  /\ layersArg' = layers
              /\ global' = r.global
              /\ filters' = r.filters
              /\ handles' = r.handles
              /\ maxLevel' = r.maxLevel
              /\ result' = r.res
    /\ nInit' = nInit + 1
    /\ UNCHANGED <<env, fs, self, pc, idx, accum, attempts, log, env0, modifies, userInits, threadVars, entryVars>>

\* the application reloads the filter of a layer it holds the handle of
Modify ==
    /\ phase = "direct"
    /\ global.installed
    /\ Len(modifies) < MaxModifies
    /\ \E i \in handles, level \in ReloadLevels :
          /\ filters' = Written(filters, i, level)
          /\ modifies' = Append(modifies, [layer |-> i, level |-> level])
          /\ maxLevel' = Rebuild("OFF", scoped, global, Written(filters, i, level))
    /\ UNCHANGED <<loadVars, entryVars, global, layersArg, nInit, handles, userInits, threadVars>>

----------------------------------------------------------------------------
(* reload::Handle::modify, called from several threads.                    *)

Threads == 1..MaxThreads
Idle == [pc |-> "idle", layer |-> 0, level |-> "OFF", seen |-> <<>>, overlap |-> FALSE]

\* the levels the threads reload a filter to
ThreadLevels == {"ERROR", "TRACE"}
NoThreads == [t \in Threads |-> Idle]
NoLocks == [i \in 1..MaxLayers |-> 0]

\* the closure of modify assigns the filter of the layer behind the handle,
\* in place: *layer.filter_mut() = level
ModifyWriteBack(fl, seen, i, level) == [seen EXCEPT ![i] = level]
ModifyWrite(fl, seen, i, level) == [fl EXCEPT ![i] = level]

\* a thread calls modify on the handle of layer i
ThreadCall(t) ==
    /\ phase = "direct"
    /\ global.installed
    /\ threads[t].pc = "idle"
    /\ \E i \in handles, level \in ThreadLevels :
          threads' = [threads EXCEPT ![t] = [pc |-> "lock", layer |-> i, level |-> level,
                                             seen |-> <<>>, overlap |-> FALSE]]
    /\ UNCHANGED <<loadVars, entryVars, global, layersArg, nInit, filters, handles,
                   modifies, maxLevel, userInits, locks>>

\* it takes the write lock of that layer's cell, waiting while it is held;
\* overlap records that another thread holds a lock at that moment
ThreadLock(t) ==
    /\ threads[t].pc = "lock"
    /\ locks[threads[t].layer] = 0
    /\ locks' = [locks EXCEPT ![threads[t].layer] = t]
    /\ threads' = [threads EXCEPT ![t].pc = "write", ![t].seen = filters,
                                  ![t].overlap = \E i \in DOMAIN locks : locks[i] # 0]
    /\ UNCHANGED <<loadVars, entryVars, global, layersArg, nInit, filters, handles,
                   modifies, maxLevel, userInits>>

\* it runs the closure on the layer
ThreadWrite(t) ==
    /\ threads[t].pc = "write"
    /\ filters' = ModifyWrite(filters, threads[t].seen, threads[t].layer, threads[t].level)
    /\ threads' = [threads EXCEPT ![t].pc = "unlock", ![t].seen = <<>>]
    /\ UNCHANGED <<loadVars, entryVars, global, layersArg, nInit, handles,
                   modifies, maxLevel, userInits, locks>>

\* it releases the lock
ThreadUnlock(t) ==
    /\ threads[t].pc = "unlock"
    /\ locks' = [locks EXCEPT ![threads[t].layer] = 0]
    /\ threads' = [threads EXCEPT ![t].pc = "rebuild"]
    /\ UNCHANGED <<loadVars, entryVars, global, layersArg, nInit, filters, handles,
                   modifies, maxLevel, userInits>>

\* it rebuilds the interest cache, reading every layer's hint, and returns
ThreadRebuild(t) ==
    /\ threads[t].pc = "rebuild"
    /\ \A i \in 1..Len(filters) : locks[i] = 0
    /\ maxLevel' = Rebuild("OFF", scoped, global, filters)
    /\ threads' = [threads EXCEPT ![t].pc = "done"]
    /\ UNCHANGED <<loadVars, entryVars, global, layersArg, nInit, filters, handles,
                   modifies, userInits, locks>>

\* the steps of a modify call that is under way
ThreadProgress(t) ==
    ThreadLock(t) \/ ThreadWrite(t) \/ ThreadUnlock(t) \/ ThreadRebuild(t)

ThreadStep == \E t \in Threads : ThreadCall(t) \/ ThreadProgress(t)

----------------------------------------------------------------------------
(* A call of process_dotenv_files on any handle, in any environment, with  *)
(* any files on disk.                                                      *)

InitLoad ==
    /\ fs \in FileSystems
    /\ env \in Environments
    /\ self \in Handles
    /\ env0 = env
    /\ pc = "dotenv"
    /\ idx = 1
    /\ accum = Ok
    /\ result = NoResult
    /\ attempts = <<>>
    /\ log = <<>>
    /\ argv = NoArgv
    /\ phase = "direct"
    /\ scoped = FALSE
    /\ global = NoSubscriber
    /\ layersArg = None
    /\ nInit = 0
    /\ filters = <<>>
    /\ handles = {}
    /\ modifies = <<>>
    /\ maxLevel = "OFF"
    /\ userInits = 0
    /\ threads = NoThreads
    /\ locks = NoLocks
    /\ ret = NoResult
    /\ calls = 0
    /\ trace = <<>>
    /\ runs = 0
    /\ old = NoResult

NextLoad == ProcessDefault \/ FoldStep \/ FoldDone \/ Return

SpecLoad == InitLoad /\ [][NextLoad]_vars

\* both revisions of the loader on the same inputs
NextRevisions == NextLoad \/ process_env_files

SpecRevisions == InitLoad /\ [][NextRevisions]_vars

----------------------------------------------------------------------------
(* What the files of a call define, read off the files on disk. *)

\* the files of a call in the documented processing order
ProcessingOrder(h) == <<DefaultFile>> \o h.files.list

\* the lines of a file that are read: those before the first unparsable line
RECURSIVE ReadLines(_, _)
ReadLines(lines, i) ==
    IF i > Len(lines) \/ lines[i] = BadLine THEN <<>>
    ELSE <<lines[i]>> \o ReadLines(lines, i + 1)

Definitions(file) == IF fs[file].exists THEN ReadLines(fs[file].lines, 1) ELSE <<>>

\* a file loads when it exists and every line of it parses
Loads(file) == fs[file].exists /\ \A i \in 1..Len(fs[file].lines) : fs[file].lines[i] # BadLine

RECURSIVE AllDefinitions(_, _)
AllDefinitions(order, i) ==
    IF i > Len(order) THEN <<>>
    ELSE Definitions(order[i]) \o AllDefinitions(order, i + 1)

DefinedKeys(defs) == {defs[i].key : i \in 1..Len(defs)}
FirstValue(defs, k) ==
    defs[CHOOSE i \in 1..Len(defs) :
            defs[i].key = k /\ \A j \in 1..(i - 1) : defs[j].key # k].val
LastValue(defs, k) ==
    defs[CHOOSE i \in 1..Len(defs) :
            defs[i].key = k /\ \A j \in (i + 1)..Len(defs) : defs[j].key # k].val

\* the supplied files of the call that fail to load, as positions of the list
FailingPositions(h) == {i \in 1..Len(h.files.list) : ~Loads(h.files.list[i])}

----------------------------------------------------------------------------
(* Claims about process_dotenv_files, checked under SpecLoad. *)

\* C1: with override disabled, a variable that is set before the call keeps
\* its value through every step of the call, whatever the files define.
C1_PresetKept ==
    ~dotenv_can_override(self) =>
        \A k \in Keys : env0[k] # Unset => env[k] = env0[k]

\* a finished call without override in which a file that loaded defines, with
\* another value, a variable that was set before
C1_Witness ==
    /\ pc = "done"
    /\ ~dotenv_can_override(self)
    /\ \E k \in Keys :
        /\ env0[k] # Unset
        /\ \E i \in 1..Len(attempts) :
              /\ attempts[i].res.ok
              /\ \E j \in 1..Len(Definitions(attempts[i].file)) :
                    /\ Definitions(attempts[i].file)[j].key = k
                    /\ Definitions(attempts[i].file)[j].val # env0[k]

\* every file of the call loaded; an absent .env is not a file of the call
AllFilesLoad(h) ==
    /\ \A i \in 1..Len(h.files.list) : Loads(h.files.list[i])
    /\ fs[DefaultFile].exists => Loads(DefaultFile)

\* C2: with override enabled and every file loading, a variable defined by a
\* file ends with the value of the last definition in processing order.
C2_LastFileWins ==
    (pc = "done" /\ dotenv_can_override(self) /\ AllFilesLoad(self)) =>
        LET defs == AllDefinitions(ProcessingOrder(self), 1)
        IN  \A k \in DefinedKeys(defs) : env[k] = LastValue(defs, k)

\* a finished override call where two files give a variable different values
\* and the variable was set before the call
C2_Witness ==
    /\ pc = "done"
    /\ dotenv_can_override(self)
    /\ AllFilesLoad(self)
    /\ \E k \in Keys :
        /\ env0[k] # Unset
        /\ \E f1, f2 \in Files :
              /\ f1 # f2
              /\ \E i \in 1..Len(Definitions(f1)), j \in 1..Len(Definitions(f2)) :
                    /\ Definitions(f1)[i].key = k
                    /\ Definitions(f2)[j].key = k
                    /\ Definitions(f1)[i].val # Definitions(f2)[j].val
              /\ \E a, b \in 1..Len(attempts) :
                    a < b /\ attempts[a].file = f1 /\ attempts[b].file = f2

\* the scenario of C3: .env gives KEY=1, the supplied extra.env gives KEY=2
Scenario ==
    /\ fs[DefaultFile] = Present(<<[key |-> "KEY", val |-> "1"]>>)
    /\ fs["extra.env"] = Present(<<[key |-> "KEY", val |-> "2"]>>)
    /\ self.files = Some(<<"extra.env">>)
    /\ env0["KEY"] = Unset

\* C3: with override disabled, a variable that is unset before the call ends
\* with the value of the first definition in processing order; in the
\* scenario KEY ends as 1 without override and as 2 with override.
C3_FirstFileWins ==
    pc = "done" =>
        /\ ~dotenv_can_override(self) =>
              LET defs == AllDefinitions(ProcessingOrder(self), 1)
              IN  \A k \in DefinedKeys(defs) :
                      env0[k] = Unset => env[k] = FirstValue(defs, k)
        /\ Scenario => env["KEY"] = (IF dotenv_can_override(self) THEN "2" ELSE "1")

C3_Witness ==
    /\ pc = "done"
    /\ Scenario
    /\ ~dotenv_can_override(self)
    /\ env["KEY"] = "1"

\* C4: the load attempts of a call are made in processing order: .env, then
\* the supplied files in list order.
C4_AttemptOrder ==
    /\ Len(attempts) <= Len(ProcessingOrder(self))
    /\ \A i \in 1..Len(attempts) : attempts[i].file = ProcessingOrder(self)[i]

\* a finished call that attempted .env and then two different supplied files
C4_Witness ==
    /\ pc = "done"
    /\ Len(attempts) = 3
    /\ attempts[2].file # attempts[3].file

\* an error names a file when it carries that file's path
ErrorNames(e, file) == "path" \in DOMAIN e /\ e.path = file

C6_AllAttempted ==
    pc = "done" =>
        /\ Len(attempts) = 1 + Len(self.files.list)
        /\ \A i \in 1..Len(self.files.list) : attempts[i + 1].file = self.files.list[i]
        /\ ~result.ok <=> FailingPositions(self) # {}

\* a finished call whose first supplied file failed and whose second loaded
C6_Witness ==
    /\ pc = "done"
    /\ Len(self.files.list) = 2
    /\ ~Loads(self.files.list[1])
    /\ Loads(self.files.list[2])
    /\ Len(attempts) = 3
    /\ attempts[3].res.ok
    /\ ~result.ok

\* the error the load of a file produces
ErrorOf(file) ==
    IF ~fs[file].exists THEN IoNotFound
    ELSE LineParse(CHOOSE i \in 1..Len(fs[file].lines) :
                       fs[file].lines[i] = BadLine
                       /\ \A j \in 1..(i - 1) : fs[file].lines[j] # BadLine)

\* C7 as claimed: when two or more supplied files fail, the error returned
\* reports each of them.
C7_Original ==
    (pc = "done" /\ Cardinality(FailingPositions(self)) >= 2) =>
        /\ ~result.ok
        /\ \A i \in FailingPositions(self) : result.err = ErrorOf(self.files.list[i])

\* the last position of a nonempty set of positions
Last(S) == CHOOSE i \in S : \A j \in S : j <= i

\* C7 amended: when supplied files fail, the error returned is the error of
\* the last failing file of the list, and every failing file has its own
\* ERROR event in the log.
C7_LastErrorReturned ==
    (pc = "done" /\ FailingPositions(self) # {}) =>
        /\ result = Err(ErrorOf(self.files.list[Last(FailingPositions(self))]))
        /\ \A i \in FailingPositions(self) :
              log[i + 1] = Event("ERROR", LoadMsg(dotenv_can_override(self)),
                                 self.files.list[i])

\* a finished call in which two supplied files failed with different errors
C7_Witness ==
    /\ pc = "done"
    /\ Cardinality(FailingPositions(self)) >= 2
    /\ \E i, j \in FailingPositions(self) :
          ErrorOf(self.files.list[i]) # ErrorOf(self.files.list[j])
    /\ ~result.ok

----------------------------------------------------------------------------
(* Any sequence of direct log_init calls in one process. *)

NoFiles == [f \in Files |-> Missing]

InitLog ==
    /\ fs = NoFiles
    /\ env \in [Keys -> {Unset}]
    /\ self \in LogHandles
    /\ env0 = env
    /\ pc = "idle"
    /\ idx = 1
    /\ accum = Ok
    /\ result = NoResult
    /\ attempts = <<>>
    /\ log = <<>>
    /\ argv = NoArgv
    /\ phase = "direct"
    /\ scoped = FALSE
    /\ global = NoSubscriber
    /\ layersArg = None
    /\ nInit = 0
    /\ filters = <<>>
    /\ handles = {}
    /\ modifies = <<>>
    /\ maxLevel = "OFF"
    /\ userInits = 0
    /\ threads = NoThreads
    /\ locks = NoLocks
    /\ ret = NoResult
    /\ calls = 0
    /\ trace = <<>>
    /\ runs = 0
    /\ old = NoResult

NextLog == LogInitCall

SpecLog == InitLog /\ [][NextLog]_vars

----------------------------------------------------------------------------
(* An application that bypasses the default layer, installs its own layers *)
(* and reloads their filters.                                              *)

InitReload ==
    /\ fs = NoFiles
    /\ env \in [Keys -> {Unset}]
    /\ self = Handle(None, FALSE, TRUE, "INFO")
    /\ env0 = env
    /\ pc = "idle"
    /\ idx = 1
    /\ accum = Ok
    /\ result = NoResult
    /\ attempts = <<>>
    /\ log = <<>>
    /\ argv = NoArgv
    /\ phase = "direct"
    /\ scoped = FALSE
    /\ global = NoSubscriber
    /\ layersArg = None
    /\ nInit = 0
    /\ filters = <<>>
    /\ handles = {}
    /\ modifies = <<>>
    /\ maxLevel = "OFF"
    /\ userInits = 0
    /\ threads = NoThreads
    /\ locks = NoLocks
    /\ ret = NoResult
    /\ calls = 0
    /\ trace = <<>>
    /\ runs = 0
    /\ old = NoResult

NextReload == InstallLayers \/ Modify

SpecReload == InitReload /\ [][NextReload]_vars

\* the same application reloading its filters from several threads
NextThreads == InstallLayers \/ ThreadStep

SpecThreads == InitReload /\ [][NextThreads]_vars

----------------------------------------------------------------------------
(* Claims about log_init, checked under SpecLog. *)

\* a log_init call attempts an installation when it has layers to register
AttemptsInstall(h, layers) ==
    \/ ~bypass_log_init(h) /\ ~layers.some
    \/ bypass_log_init(h) /\ layers.some

\* C8: once the global subscriber is installed, no log_init call changes it,
\* and every log_init call that attempts an installation returns an error.
C8_InstalledOnce ==
    [][global.installed =>
          /\ global' = global
          /\ (nInit' # nInit /\ AttemptsInstall(self', layersArg')) => ~result'.ok]_vars

\* a later call attempted an installation over an installed subscriber and failed
C8_Witness ==
    /\ nInit >= 2
    /\ global.installed
    /\ AttemptsInstall(self, layersArg)
    /\ result = Err(InitError)

----------------------------------------------------------------------------
(* Entrypoint::entrypoint *)

\* the variables an argument type may bind to its fields, and the lines and
\* files of the processes that call entrypoint
EntryKeys == {"DOTENV_FILE", "DOTENV_OVERRIDE", "LOG_LEVEL"}
EntryLines ==
    {[key |-> "DOTENV_FILE", val |-> "more.env"],
     [key |-> "DOTENV_OVERRIDE", val |-> "true"],
     [key |-> "LOG_LEVEL", val |-> "WARN"],
     [key |-> "LOG_LEVEL", val |-> "DEBUG"],
     BadLine}
EntryContents == {Missing, Present(<<>>)} \cup {Present(<<l>>) : l \in EntryLines}
EntryFileSystems == [Files -> EntryContents]
EntryEnvironments ==
    {[k \in EntryKeys |-> IF k = "LOG_LEVEL" THEN v ELSE Unset] : v \in {Unset, "ERROR"}}
Argvs ==
    [files : {None} \cup {Some(l) : l \in SeqsUpTo(SuppliedFiles, MaxFiles)},
     bypass : BOOLEAN]

\* Self::parse(): the command line, with the environment behind the fields
\* that are bound to a variable
ParseCommandLine(a, e) == Handle(a.files, FALSE, a.bypass, FromEnv)
Parse(a, e) ==
    Handle(IF a.files.some THEN a.files
           ELSE IF e["DOTENV_FILE"] # Unset THEN Some(<<e["DOTENV_FILE"]>>)
           ELSE None,
           e["DOTENV_OVERRIDE"] = "true",
           a.bypass,
           FromEnv)

\* what the user function may return
UserError == [kind |-> "user", text |-> "error of the user function"]
UserResults == {[ok |-> TRUE, value |-> "T"], Err(UserError)}

Step(name, h, res) == [step |-> name, handle |-> h, res |-> res]

\* `?`: an error result leaves entrypoint
AbortsNever(res) == FALSE
Aborts(res) == ~res.ok

\* the guard _log of set_default(..) lives in the setup block: it is dropped
\* when the block ends and when `?` returns from inside it
GuardKept(sc) == sc
GuardDropped(sc) == FALSE

\* set_default(..) and the call of process_dotenv_files on the original handle
Enter ==
    /\ phase = "start"
    /\ scoped' = TRUE
    /\ phase' = "load1"
    /\ pc' = "dotenv"
    /\ env0' = env
    /\ idx' = 1
    /\ accum' = Ok
    /\ result' = NoResult
    /\ attempts' = <<>>
    /\ log' = <<>>
    /\ ret' = NoResult
    /\ calls' = 0
    /\ trace' = <<>>
    /\ runs' = runs + 1
    /\ maxLevel' = Rebuild(TempLevel, FALSE, global, filters)
    /\ UNCHANGED <<env, fs, self, argv, old>>
    /\ UNCHANGED <<global, layersArg, nInit, filters, handles, modifies, userInits, threadVars>>

\* the second load and log_init on the handle entrypoint was called on
ReparseSkipped ==
    /\ phase = "load1"
    /\ pc = "done"
    /\ phase' = "load2"
    /\ trace' = Append(trace, Step("process_dotenv_files", self, result))
    /\ UNCHANGED <<loadVars, logVars, argv, scoped, ret, calls, runs, old>>

\* `?` on the first load, then Self::parse() and the call of
\* process_dotenv_files on the new handle
Reparse ==
    /\ phase = "load1"
    /\ pc = "done"
    /\ IF Aborts(result)
       THEN /\ ret' = result
            /\ scoped' = GuardDropped(scoped)
            /\ phase' = "returned"
            /\ trace' = Append(trace, Step("process_dotenv_files", self, result))
            /\ UNCHANGED <<self, pc, env0, idx, accum, result, attempts, log>>
       ELSE /\ self' = Parse(argv, env)
            /\ phase' = "load2"
            /\ pc' = "dotenv"
            /\ env0' = env
            /\ idx' = 1
            /\ accum' = Ok
            /\ result' = NoResult
            /\ attempts' = <<>>
            /\ log' = <<>>
            /\ trace' = trace \o <<Step("process_dotenv_files", self, result),
                                   Step("parse", Parse(argv, env), Ok)>>
            /\ UNCHANGED <<ret, scoped>>
    /\ UNCHANGED <<env, fs, logVars, argv, calls, runs, old>>

\* log_init is chained after process_dotenv_files: default_log_level() reads
\* the environment the second load left, not the one it started from
LevelEnvironmentBefore(e, e0) == e0
LevelEnvironment(e, e0) == e

\* `?` on the second load, then log_init(None) and `?` on its result
InitLogging ==
    /\ phase = "load2"
    /\ pc = "done"
    /\ IF Aborts(result)
       THEN /\ ret' = result
            /\ scoped' = GuardDropped(scoped)
            /\ phase' = "returned"
            /\ trace' = Append(trace, Step("process_dotenv_files", self, result))
            /\ UNCHANGED logVars
       ELSE LET r == LogInitOutcome(self, None, global, LevelEnvironment(env, env0),
                                     scoped, filters, handles, maxLevel)
            IN  /\ global' = r.global
                /\ filters' = r.filters
                /\ handles' = r.handles
                /\ maxLevel' = r.maxLevel
                /\ layersArg' = None
                /\ nInit' = nInit + 1
                /\ UNCHANGED <<modifies, userInits, threadVars>>
                /\ trace' = trace \o <<Step("process_dotenv_files", self, result),
                                       Step("log_init", self, r.res)>>
                /\ IF Aborts(r.res)
                   THEN /\ ret' = r.res
                        /\ scoped' = GuardDropped(scoped)
                        /\ phase' = "returned"
                   ELSE /\ phase' = "ready"
                        /\ UNCHANGED <<ret, scoped>>
    /\ UNCHANGED <<loadVars, argv, calls, runs, old>>

\* the end of the setup block: the temporary subscriber is dropped
ExitScope ==
    /\ phase = "ready"
    /\ scoped' = GuardDropped(scoped)
    /\ phase' = "function"
    /\ UNCHANGED <<loadVars, logVars, argv, ret, calls, trace, runs, old>>

\* the layers a user function builds: one at ERROR, or two at the default level
UserLayers == {Some(<<"ERROR">>), Some(<<"INFO", "INFO">>)}

\* the user function of a handle that bypasses log_init calls
\* log_init(Some(layers)) itself
UserLogInit ==
    /\ phase = "function"
    /\ bypass_log_init(self)
    /\ userInits < MaxUserInits
    /\ \E layers \in UserLayers :
          LET r == LogInitOutcome(self, layers, global, env, scoped, filters, handles, maxLevel)
          IN  /\ layersArg' = layers
              /\ global' = r.global
              /\ filters' = r.filters
              /\ handles' = r.handles
              /\ maxLevel' = r.maxLevel
              /\ result' = r.res
    /\ nInit' = nInit + 1
    /\ userInits' = userInits + 1
    /\ UNCHANGED <<env, fs, self, pc, idx, accum, attempts, log, env0, modifies, threadVars, entryVars>>

\* function(entrypoint) is the tail expression of entrypoint: its value is
\* the value of the call
FunctionResultWrapped(r) ==
    IF r.ok THEN r ELSE Err([kind |-> "anyhow", text |-> "entrypoint function failed"])
FunctionResult(r) == r

\* function(entrypoint): the user function runs and its result is returned
Function ==
    /\ phase = "function"
    /\ calls' = calls + 1
    /\ \E r \in UserResults :
          /\ ret' = FunctionResult(r)
          /\ trace' = Append(trace, Step("function", self, r))
    /\ phase' = "returned"
    /\ UNCHANGED <<loadVars, logVars, argv, scoped, runs, old>>

\* the application parses its command line and calls entrypoint again
Again ==
    /\ phase = "returned"
    /\ runs < MaxRuns
    /\ self' = Parse(argv, env)
    /\ phase' = "start"
    /\ pc' = "idle"
    /\ UNCHANGED <<env, fs, idx, accum, result, attempts, log, env0, logVars,
                   argv, scoped, ret, calls, trace, runs, old>>

Init ==
    /\ fs \in EntryFileSystems
    /\ env \in EntryEnvironments
    /\ argv \in Argvs
    /\ self = Parse(argv, env)
    /\ env0 = env
    /\ pc = "idle"
    /\ idx = 1
    /\ accum = Ok
    /\ result = NoResult
    /\ attempts = <<>>
    /\ log = <<>>
    /\ phase = "start"
    /\ scoped = FALSE
    /\ global = NoSubscriber
    /\ layersArg = None
    /\ nInit = 0
    /\ filters = <<>>
    /\ handles = {}
    /\ modifies = <<>>
    /\ maxLevel = "OFF"
    /\ userInits = 0
    /\ threads = NoThreads
    /\ locks = NoLocks
    /\ ret = NoResult
    /\ calls = 0
    /\ trace = <<>>
    /\ runs = 0
    /\ old = NoResult

Next ==
    \/ Enter
    \/ ProcessDefault
    \/ FoldStep
    \/ FoldDone
    \/ Return
    \/ Reparse
    \/ InitLogging
    \/ ExitScope
    \/ UserLogInit
    \/ Function
    \/ Again

Spec == Init /\ [][Next]_vars

----------------------------------------------------------------------------
(* Claims about entrypoint, checked under Spec. *)

SetupSteps == {"process_dotenv_files", "log_init"}

\* the setup steps of the running entrypoint call that returned an error
Failures == {i \in 1..Len(trace) : trace[i].step \in SetupSteps /\ ~trace[i].res.ok}

First(S) == CHOOSE i \in S : \A j \in S : i <= j

\* C9: an entrypoint call whose first load, second load or log_init failed
\* returns that error and never invokes the user function; a call whose
\* three setup steps succeeded invokes it exactly once.
C9_SetupFailureAborts ==
    /\ phase \notin {"start", "returned"} => calls = 0
    /\ \A i \in 1..Len(trace) :
          trace[i].step = "process_dotenv_files" =>
              (trace[i].res.ok <=> FailingPositions(trace[i].handle) = {})
    /\ phase = "returned" =>
          IF Failures # {}
          THEN calls = 0 /\ ret = trace[First(Failures)].res
          ELSE /\ calls = 1
               /\ Cardinality({i \in 1..Len(trace) : trace[i].step \in SetupSteps}) = 3

\* the first load succeeded, the second load failed and entrypoint returned
\* its error without invoking the user function
C9_Witness ==
    /\ phase = "returned"
    /\ Len(trace) = 3
    /\ trace[1].res.ok
    /\ trace[3].step = "process_dotenv_files"
    /\ ~trace[3].res.ok
    /\ ret = trace[3].res
    /\ calls = 0

ExpectedSteps == <<"process_dotenv_files", "parse", "process_dotenv_files", "log_init", "function">>

C11_FunctionResultReturned ==
    (phase = "returned" /\ calls = 1) =>
        /\ trace[Len(trace)].step = "function"
        /\ ret = trace[Len(trace)].res
        /\ ret \in UserResults

\* the user function returned an error and entrypoint returned that error
C11_Witness ==
    /\ phase = "returned"
    /\ calls = 1
    /\ trace[Len(trace)].res = Err(UserError)
    /\ ret = Err(UserError)

\* C12: a log_init call that is given layers on a handle that does not
\* bypass log_init returns the error of the match and installs nothing: the
\* global subscriber, its filters and the level in effect stay as they were.
C12_LayersRejected ==
    [][(nInit' # nInit /\ ~bypass_log_init(self') /\ layersArg'.some) =>
          /\ result' = Err(BypassError)
          /\ global' = global
          /\ filters' = filters
          /\ maxLevel' = maxLevel]_vars

\* layers were passed to a handle that does not bypass log_init, in a process
\* without a global subscriber, and none is installed after the call
C12_Witness ==
    /\ nInit >= 1
    /\ ~bypass_log_init(self)
    /\ layersArg.some
    /\ Len(layersArg.list) >= 1
    /\ result = Err(BypassError)
    /\ ~global.installed

Enabled(level) == EnabledAt(maxLevel, scoped, global, filters, level)

\* C14: on a handle that bypasses log_init the setup of entrypoint installs
\* no global subscriber: when the user function starts none is installed and
\* no level is enabled, and the first log_init(Some(layers)) a user function
\* makes returns Ok and installs exactly the layers it was given.
C14_BypassInstallsNothing ==
    /\ []((phase = "function" /\ self.bypass /\ userInits = 0) =>
              /\ ~global.installed
              /\ \A l \in Levels : ~Enabled(l))
    /\ [][(self.bypass /\ userInits = 0 /\ userInits' = 1) =>
              /\ layersArg'.some
              /\ result' = [ok |-> TRUE, value |-> self]
              /\ global' = Installed(layersArg'.list)
              /\ filters' = layersArg'.list]_vars

\* the user function of a bypassing handle installed two layers at INFO:
\* INFO is enabled and TRACE is not
C14_Witness ==
    /\ phase = "function"
    /\ self.bypass
    /\ userInits = 1
    /\ result.ok
    /\ global = Installed(<<"INFO", "INFO">>)
    /\ Enabled("INFO")
    /\ ~Enabled("TRACE")

\* the value last written to the filter of layer j: by the last modify call
\* on its handle, or by its construction when there was none
LastWritten(j) ==
    LET on == {k \in 1..Len(modifies) : modifies[k].layer = j}
    IN  IF on = {} THEN global.layers[j] ELSE modifies[Last(on)].level

\* C15: after any sequence of modify calls on the reload handles of the
\* installed layers, the filter of every layer is the value last written
\* through its own handle: a modify call on one handle changes no other
\* layer's filter.
C15_ReloadIndependent ==
    global.installed =>
        /\ Len(filters) = Len(global.layers)
        /\ \A j \in 1..Len(filters) : filters[j] = LastWritten(j)

\* layer 2 was reloaded, then layer 1 was reloaded to another level, and
\* layer 2 still has the level written through its own handle
C15_Witness ==
    /\ Len(filters) = 2
    /\ Len(modifies) = 2
    /\ modifies[1].layer = 2
    /\ modifies[2].layer = 1
    /\ modifies[1].level # modifies[2].level
    /\ modifies[1].level # global.layers[2]
    /\ filters[2] = modifies[1].level
    /\ filters[1] = modifies[2].level

\* C16: after a setup on the default path the user function runs with the
\* level of the handle in effect: an event is enabled exactly when it is at
\* most as verbose as default_log_level(). At INFO a debug event is
\* suppressed and a warn event is enabled; at DEBUG a debug event is enabled.
C16_DefaultLevelInEffect ==
    (phase = "function" /\ ~self.bypass) =>
        LET level == default_log_level(self, env)
        IN  /\ global = Installed(<<level>>)
            /\ \A l \in Levels : Enabled(l) <=> LevelNum(l) <= LevelNum(level)
            /\ level = "INFO" => ~Enabled("DEBUG") /\ Enabled("WARN")
            /\ level = "DEBUG" => Enabled("DEBUG")

\* the user function runs after a default-path setup at INFO: warn is
\* enabled, debug is not
C16_Witness ==
    /\ phase = "function"
    /\ ~self.bypass
    /\ default_log_level(self, env) = "INFO"
    /\ global.installed
    /\ Enabled("WARN")
    /\ ~Enabled("DEBUG")

\* the definitions of LOG_LEVEL in the files the final handle processes
LevelDefinitions == AllDefinitions(ProcessingOrder(self), 1)

\* C17: the level installed by the setup is the value LOG_LEVEL has after
\* both loads. When the files define LOG_LEVEL, that is the first definition
\* (the one of .env when it has one) with override disabled and LOG_LEVEL not
\* set before, and the last definition (the one of the last supplied file
\* that has one) with override enabled, whatever LOG_LEVEL was before.
C17_LevelAfterLoads ==
    (phase \in {"ready", "function"} /\ ~self.bypass) =>
        /\ global = Installed(<<default_log_level(self, env)>>)
        /\ "LOG_LEVEL" \in DefinedKeys(LevelDefinitions) =>
              /\ (~dotenv_can_override(self) /\ env["LOG_LEVEL"] # "ERROR") =>
                    global.layers = <<FirstValue(LevelDefinitions, "LOG_LEVEL")>>
              /\ dotenv_can_override(self) =>
                    global.layers = <<LastValue(LevelDefinitions, "LOG_LEVEL")>>

\* override is enabled by a supplied file, .env gives WARN and a later
\* supplied file gives DEBUG: the layer is installed at DEBUG
C17_Witness ==
    /\ phase = "function"
    /\ ~self.bypass
    /\ dotenv_can_override(self)
    /\ fs[DefaultFile] = Present(<<[key |-> "LOG_LEVEL", val |-> "WARN"]>>)
    /\ \E i \in 1..Len(self.files.list) :
          fs[self.files.list[i]] = Present(<<[key |-> "LOG_LEVEL", val |-> "DEBUG"]>>)
    /\ global = Installed(<<"DEBUG">>)

\* override is disabled, .env gives WARN and a supplied file gives DEBUG:
\* the layer is installed at WARN
C17_WitnessNoOverride ==
    /\ phase = "function"
    /\ ~self.bypass
    /\ ~dotenv_can_override(self)
    /\ fs[DefaultFile] = Present(<<[key |-> "LOG_LEVEL", val |-> "WARN"]>>)
    /\ \E i \in 1..Len(self.files.list) :
          fs[self.files.list[i]] = Present(<<[key |-> "LOG_LEVEL", val |-> "DEBUG"]>>)
    /\ global = Installed(<<"WARN">>)

\* C18: a call with no .env file on disk and no supplied files, the list
\* being None or empty, changes no variable and returns Ok.
C18_NothingToLoad ==
    (~fs[DefaultFile].exists /\ additional_dotenv_files(self).list = <<>>) =>
        /\ env = env0
        /\ pc = "done" => result = [ok |-> TRUE, value |-> self]

\* a finished call with an empty list of files and no .env file, in an
\* environment that has a variable set
C18_Witness ==
    /\ pc = "done"
    /\ ~fs[DefaultFile].exists
    /\ additional_dotenv_files(self) = Some(<<>>)
    /\ \E k \in Keys : env0[k] # Unset
    /\ env = env0
    /\ result.ok

\* the same with no list of files at all
C18_WitnessNone ==
    /\ pc = "done"
    /\ ~fs[DefaultFile].exists
    /\ additional_dotenv_files(self) = None
    /\ env = env0
    /\ result.ok

\* the environment process_dotenv_files leaves when it runs on handle h in
\* environment e and has loaded .env and the first k supplied files
RECURSIVE RunFiles(_, _, _, _)
RunFiles(e, f, h, k) ==
    IF k = 0 THEN LoadDefault(e, f, h).env
    ELSE LoadSupplied(RunFiles(e, f, h, k - 1), f, NextFile(h, k), h).env

\* C19: with override disabled, a second run of process_dotenv_files on the
\* same handle, started in the environment the first run left, sets no
\* variable: after each of its loads, and so at its end, the environment is
\* the one the first run left.
C19_SecondRunChangesNothing ==
    (pc = "done" /\ ~dotenv_can_override(self)) =>
        LET n == Len(additional_dotenv_files(self).list)
        IN  /\ env = RunFiles(env0, fs, self, n)
            /\ \A k \in 0..n : RunFiles(env, fs, self, k) = env

\* a first run that set a variable from .env, kept it over another value of
\* a supplied file and failed on a file, and whose second run changes nothing
C19_Witness ==
    /\ pc = "done"
    /\ ~dotenv_can_override(self)
    /\ env # env0
    /\ ~result.ok
    /\ \E k \in DefinedKeys(AllDefinitions(ProcessingOrder(self), 1)) :
          LastValue(AllDefinitions(ProcessingOrder(self), 1), k) # env[k]
    /\ RunFiles(env, fs, self, Len(additional_dotenv_files(self).list)) = env

\* C19 in entrypoint: when the re-parsed handle equals the original one and
\* override is disabled, the second load leaves the environment as the first
\* load left it
C19_TwoPass ==
    (phase = "load2" /\ ~dotenv_can_override(self) /\ trace[1].handle = self) =>
        env = env0

\* C20: a log_init call on the default path, without layers on a handle that
\* does not bypass log_init, returns Ok exactly when no global subscriber was
\* installed before it, at every level of the handle, OFF included; when one
\* was installed it returns the error of the failed installation, and it
\* never aborts.
C20_DefaultPathFailure ==
    [][(nInit' # nInit /\ ~bypass_log_init(self') /\ ~layersArg'.some) =>
          /\ result' # Panic
          /\ result'.ok <=> ~global.installed
          /\ result'.ok => result' = [ok |-> TRUE, value |-> self']
          /\ ~result'.ok => result' = Err(InitError)]_vars

\* the first log_init of the process, on a handle whose level is OFF,
\* returned Ok and installed a layer that admits nothing
C20_Witness ==
    /\ nInit = 1
    /\ ~bypass_log_init(self)
    /\ ~layersArg.some
    /\ default_log_level(self, env) = "OFF"
    /\ result = [ok |-> TRUE, value |-> self]
    /\ global = Installed(<<"OFF">>)
    /\ maxLevel = "OFF"

\* C21: the only failure of the .env load that is suppressed is the absence
\* of the file: a call on a .env file that exists and has a line that does
\* not parse returns an error.
C21_OnlyAbsenceSuppressed ==
    (pc = "done" /\ fs[DefaultFile].exists /\ ~Loads(DefaultFile)) => ~result.ok

\* C22: the temporary subscriber of entrypoint is the default during both
\* loads and log_init, where it enables the events up to its level, and at
\* no other time: not when the user function runs, and not after entrypoint
\* has returned, a return with a setup error included.
C22_TemporaryScope ==
    /\ scoped <=> phase \in {"load1", "load2", "ready"}
    /\ scoped => \A l \in Levels : Enabled(l) <=> LevelNum(l) <= LevelNum(TempLevel)
    /\ (phase \in {"function", "returned"} /\ ~global.installed) =>
          \A l \in Levels : ~Enabled(l)

\* entrypoint returned the error of its second load: the temporary
\* subscriber is gone and no event is enabled
C22_Witness ==
    /\ phase = "returned"
    /\ calls = 0
    /\ Len(trace) = 3
    /\ ~ret.ok
    /\ ~scoped
    /\ ~global.installed
    /\ ~Enabled("ERROR")

\* the threads whose modify call is under way, and the levels written to
\* layer i by the calls that are over
Running == {t \in Threads : threads[t].pc \notin {"idle", "done"}}
WrittenTo(i) == {threads[t].level : t \in {u \in Threads : threads[u].pc = "done" /\ threads[u].layer = i}}

\* C23: modify calls made by several threads at the same time all complete,
\* under every interleaving: while calls are under way one of them can take
\* its next step, and a call has four steps. When they are over, a layer one
\* call wrote to has the level of that call, a layer several calls wrote to
\* has the level of one of them, and a layer no call wrote to has the level
\* it was built with.
C23_ConcurrentModify ==
    /\ Running # {} => \E t \in Running : ENABLED ThreadProgress(t)
    /\ Running = {} =>
          \A i \in 1..Len(filters) :
              IF WrittenTo(i) = {} THEN filters[i] = global.layers[i]
              ELSE filters[i] \in WrittenTo(i)

\* two threads reloaded two different layers to different levels, the second
\* taking its lock while the first held its own, and each layer has the
\* level written through its own handle
C23_Witness ==
    /\ \A t \in {1, 2} : threads[t].pc = "done"
    /\ threads[1].layer # threads[2].layer
    /\ threads[1].level # threads[2].level
    /\ threads[2].overlap
    /\ filters[threads[1].layer] = threads[1].level
    /\ filters[threads[2].layer] = threads[2].level

\* two threads reloaded the same layer to different levels
C23_WitnessSameHandle ==
    /\ \A t \in {1, 2} : threads[t].pc = "done"
    /\ threads[1].layer = threads[2].layer
    /\ threads[1].level # threads[2].level
    /\ filters[threads[1].layer] \in {threads[1].level, threads[2].level}

\* the files of the load attempts of the running call, in order
AttemptedFiles == [i \in 1..Len(attempts) |-> attempts[i].file]

\* C24: from the re-parse on, entrypoint works on the handle parsed in the
\* environment the first load left: the second load attempts that handle's
\* files with that handle's override flag, and log_init and the user function
\* get the same handle. A DOTENV_OVERRIDE or DOTENV_FILE set by the first
\* load therefore decides the flag and, without files on the command line,
\* the file list of the second load.
C24_ReparsedHandleUsed ==
    (phase \in {"load2", "ready", "function"} \/ (phase = "returned" /\ Len(trace) >= 2)) =>
        /\ Len(trace) >= 2
        /\ trace[2].step = "parse"
        /\ \A i \in 2..Len(trace) : trace[i].handle = self
        /\ dotenv_can_override(self) <=> env0["DOTENV_OVERRIDE"] = "true"
        /\ additional_dotenv_files(self) =
              IF argv.files.some THEN argv.files
              ELSE IF env0["DOTENV_FILE"] # Unset THEN Some(<<env0["DOTENV_FILE"]>>)
              ELSE None
        /\ pc = "done" =>
              /\ AttemptedFiles = ProcessingOrder(self)
              /\ \A i \in 1..Len(log) :
                    log[i].level = "INFO" => log[i].text = LoadMsg(env0["DOTENV_OVERRIDE"] = "true")

\* the first load, on a handle without files, set DOTENV_FILE: the second
\* load attempted the file it names and the user function got the new handle
C24_Witness ==
    /\ phase = "returned"
    /\ calls = 1
    /\ trace[1].handle.files = None
    /\ trace[5].handle.files = Some(<<"more.env">>)
    /\ AttemptedFiles = <<DefaultFile, "more.env">>

\* C25: with the layers of the application installed, after any sequence of
\* modify calls an event is enabled exactly when the current filter of at
\* least one layer is at least as verbose as the event. With two layers,
\* TRACE is enabled iff the filter of layer one or of layer two is TRACE, and
\* with both filters at INFO, INFO is enabled and TRACE is not.
C25_EnabledByAnyLayer ==
    global.installed =>
        /\ \A l \in Levels :
              Enabled(l) <=> \E i \in 1..Len(filters) : LevelNum(l) <= LevelNum(filters[i])
        /\ Len(filters) = 2 =>
              /\ Enabled("TRACE") <=> (filters[1] = "TRACE" \/ filters[2] = "TRACE")
              /\ filters = <<"INFO", "INFO">> => Enabled("INFO") /\ ~Enabled("TRACE")

\* two layers built at TRACE were both reloaded to INFO: TRACE is disabled
\* again and INFO is still enabled
C25_Witness ==
    /\ global = Installed(<<"TRACE", "TRACE">>)
    /\ Len(modifies) = 2
    /\ filters = <<"INFO", "INFO">>
    /\ Enabled("INFO")
    /\ ~Enabled("TRACE")

\* one of two layers was reloaded to TRACE and the other to ERROR: TRACE is
\* enabled
C25_WitnessOneLayer ==
    /\ Len(modifies) = 2
    /\ filters = <<"ERROR", "TRACE">>
    /\ Enabled("TRACE")

\* the handle of the running call without the supplied files that fail
WithoutFailing(h) ==
    [h EXCEPT !.files = Some(SelectSeq(additional_dotenv_files(h).list, Loads))]

\* the environment a run on handle h leaves, started in environment e
RunAll(e, h) == RunFiles(e, fs, h, Len(additional_dotenv_files(h).list))

\* the value of variable k after a call that read the definitions defs by
\* the override rule of handle h, started in environment e
ValueAfter(e, h, defs, k) ==
    IF k \notin DefinedKeys(defs) THEN e[k]
    ELSE IF dotenv_can_override(h) THEN LastValue(defs, k)
    ELSE IF e[k] # Unset THEN e[k]
    ELSE FirstValue(defs, k)

\* C26 as stated: after a call in which a supplied file failed, the
\* environment is the one the call would have left without the failing
\* files in its list.
C26_Original ==
    (pc = "done" /\ FailingPositions(self) # {}) => env = RunAll(env0, WithoutFailing(self))

\* C26: a call in which a supplied file failed returns an error and rolls
\* nothing back: every variable has the value the override rule gives it
\* over the lines read from .env and from every supplied file, before or
\* after a failing one, where a missing file has no lines and a file that
\* stops at an unparsable line has the lines before that line. When no
\* failing file has such lines, the environment is the one the call would
\* have left without the failing files in its list.
C26_NoRollback ==
    (pc = "done" /\ FailingPositions(self) # {}) =>
        /\ ~result.ok
        /\ \A k \in Keys :
              env[k] = ValueAfter(env0, self, AllDefinitions(ProcessingOrder(self), 1), k)
        /\ (\A i \in FailingPositions(self) : Definitions(self.files.list[i]) = <<>>) =>
              env = RunAll(env0, WithoutFailing(self))

\* a supplied file failed at its second line and the variable of its first
\* line is set
C26_Witness ==
    /\ pc = "done"
    /\ ~result.ok
    /\ \E i \in FailingPositions(self) :
          LET defs == Definitions(self.files.list[i])
          IN  /\ defs # <<>>
              /\ env0[defs[1].key] = Unset
              /\ env[defs[1].key] = defs[1].val

\* the first supplied file is missing and the variable of the second one,
\* which loaded after it, is set
C26_WitnessAfterFailure ==
    /\ pc = "done"
    /\ ~result.ok
    /\ FailingPositions(self) = {1}
    /\ Len(self.files.list) = 2
    /\ LET defs == Definitions(self.files.list[2])
       IN  /\ defs # <<>>
           /\ env0[defs[1].key] = Unset
           /\ env[defs[1].key] = defs[1].val

\* the files of the running call that loaded: present, every line parsed
LoadedFiles == {f \in {ProcessingOrder(self)[i] : i \in 1..Len(ProcessingOrder(self))} : Loads(f)}

\* the variables the loaded files define, and the variables any line read
\* from a file of the call defines, loaded or not
KeysOfLoadedFiles == UNION {DefinedKeys(Definitions(f)) : f \in LoadedFiles}
KeysOfReadLines == DefinedKeys(AllDefinitions(ProcessingOrder(self), 1))

\* C27 as stated: a finished call leaves every variable that none of the
\* files it loaded defines as it was, and unsets no variable.
C27_Original ==
    pc = "done" =>
        /\ \A k \in Keys \ KeysOfLoadedFiles : env[k] = env0[k]
        /\ \A k \in Keys : env0[k] # Unset => env[k] # Unset

\* C27: for every override setting and file list, a call leaves every
\* variable that no line read from its files defines as it was, where the
\* lines read from a file that stops at an unparsable line are the lines
\* before that line, and it unsets no variable.
C27_Frame ==
    /\ \A k \in Keys \ KeysOfReadLines : env[k] = env0[k]
    /\ \A k \in Keys : env0[k] # Unset => env[k] # Unset

\* a finished call with override that replaced one variable from a file and
\* left another one, set before and defined in no file, as it was
C27_Witness ==
    /\ pc = "done"
    /\ dotenv_can_override(self)
    /\ \E k \in KeysOfReadLines : env0[k] # Unset /\ env[k] # env0[k]
    /\ \E k \in Keys \ KeysOfReadLines : env0[k] # Unset /\ env[k] = env0[k]

\* C28: an entrypoint call on the default path that reaches log_init in a
\* process where an earlier call installed the global subscriber returns the
\* error of log_init and does not run its user function; both of its loads
\* have run and succeeded by then, and the environment is the one its second
\* load left.
C28_SecondCallFails ==
    (runs >= 2 /\ ~argv.bypass /\ phase = "returned" /\ Len(trace) >= 4) =>
        /\ global.installed
        /\ Len(trace) = 4
        /\ trace[1].step = "process_dotenv_files" /\ trace[1].res.ok
        /\ trace[3].step = "process_dotenv_files" /\ trace[3].res.ok
        /\ trace[4] = Step("log_init", self, Err(InitError))
        /\ ret = Err(InitError)
        /\ calls = 0
        /\ AttemptedFiles = ProcessingOrder(self)
        /\ env = RunAll(env0, self)

\* the second call loaded .env and a supplied file twice, with override, and
\* then returned the error of log_init
C28_Witness ==
    /\ runs = 2
    /\ ~argv.bypass
    /\ phase = "returned"
    /\ ret = Err(InitError)
    /\ calls = 0
    /\ dotenv_can_override(self)
    /\ Len(attempts) >= 2
    /\ \A i \in 1..Len(attempts) : attempts[i].res.ok
    /\ env["LOG_LEVEL"] \in {"WARN", "DEBUG"}


----------------------------------------------------------------------------
(* The two revisions of the loader, checked under SpecRevisions. *)

\* C29: with override disabled and every supplied file loading, the earlier
\* revision (process_env_files) and process_dotenv_files leave the same
\* environment when run from the same environment, files and file list.
C29_SameEnvironment ==
    (/\ pc = "done" /\ old # NoResult
     /\ ~dotenv_can_override(self)
     /\ FailingPositions(self) = {}) =>
        /\ old.env = env
        /\ old.res.ok /\ result.ok

\* both revisions ran, the earlier one twice, over a .env and two supplied
\* files that load, and the environment is no more the initial one
C29_Witness ==
    /\ pc = "done" /\ old # NoResult
    /\ ~dotenv_can_override(self)
    /\ self.files.some /\ Len(self.files.list) = 2
    /\ FailingPositions(self) = {}
    /\ Loads(DefaultFile)
    /\ old.passes = 2
    /\ env # env0
    /\ \E k \in DOMAIN env0 : env0[k] # Unset /\ k \in DefinedKeys(AllDefinitions(ProcessingOrder(self), 1))

\* the earlier revision stopped after one iteration: no .env, no file list
C29_WitnessOnePass ==
    /\ pc = "done" /\ old # NoResult
    /\ ~dotenv_can_override(self)
    /\ ~self.files.some
    /\ old.passes = 1
    /\ old.env = env

====
